---- MODULE Spec2Model ----
(***************************************************************************)
(* Readmit-Backend: the readmission-risk scorer (routes/predictions.js),   *)
(* the tenant-scoped patient CRUD routes (routes/patients.js) and the      *)
(* recommendation route with its hardcoded fallback                        *)
(* (routes/recommendations.js, second half of routes/patients.js).         *)
(***************************************************************************)
EXTENDS Integers, Sequences, FiniteSets, TLC

(***************************************************************************)
(* Bounds of the model                                                     *)
(***************************************************************************)
MaxConds == 2
MaxMeds == 6
MaxHosp == 3
MaxStayDays == 8

\* An optional field is the empty tuple when missing and <<v>> when present
Absent == <<>>
Some(v) == <<v>>
Val(o) == o[1]
Opt(S) == {Absent} \cup {Some(v) : v \in S}

(***************************************************************************)
(* Strings are sequences of one-character strings, so that toLowerCase and *)
(* includes are computed and not assumed.                                  *)
(***************************************************************************)
UpperAlpha == <<"A", "B", "C", "D", "E", "F", "G", "H", "I", "J", "K", "L", "M",
                "N", "O", "P", "Q", "R", "S", "T", "U", "V", "W", "X", "Y", "Z">>
LowerAlpha == <<"a", "b", "c", "d", "e", "f", "g", "h", "i", "j", "k", "l", "m",
                "n", "o", "p", "q", "r", "s", "t", "u", "v", "w", "x", "y", "z">>

toLowerCaseChar(ch) ==
    IF \E i \in 1..26 : UpperAlpha[i] = ch
    THEN LowerAlpha[CHOOSE i \in 1..26 : UpperAlpha[i] = ch]
    ELSE ch

toLowerCase(s) == [i \in 1..Len(s) |-> toLowerCaseChar(s[i])]

includes(s, sub) ==
    \E i \in 0..(Len(s) - Len(sub)) : SubSeq(s, i + 1, i + Len(sub)) = sub

kwDiabet == <<"d", "i", "a", "b", "e", "t">>
kwHeart == <<"h", "e", "a", "r", "t">>
kwCardiac == <<"c", "a", "r", "d", "i", "a", "c">>
kwHypertension == <<"h", "y", "p", "e", "r", "t", "e", "n", "s", "i", "o", "n">>
kwBloodPressure == <<"b", "l", "o", "o", "d", " ", "p", "r", "e", "s", "s", "u", "r", "e">>
kwRespiratory == <<"r", "e", "s", "p", "i", "r", "a", "t", "o", "r", "y">>
kwCopd == <<"c", "o", "p", "d">>
kwAsthma == <<"a", "s", "t", "h", "m", "a">>

(***************************************************************************)
(* Request payloads of POST /api/predictions                               *)
(***************************************************************************)
cType2Diabetes == <<"T", "y", "p", "e", " ", "2", " ", "D", "i", "a", "b", "e", "t", "e", "s">>
cCardiacArrhythmia == <<"C", "a", "r", "d", "i", "a", "c", " ", "a", "r", "r", "h", "y", "t", "h", "m", "i", "a">>
cBloodPressure == <<"H", "i", "g", "h", " ", "B", "l", "o", "o", "d", " ", "P", "r", "e", "s", "s", "u", "r", "e">>
cHeartHypertensionCopd == <<"H", "e", "a", "r", "t", ",", " ", "H", "Y", "P", "E", "R", "T", "E", "N", "S", "I", "O", "N", ",", " ", "C", "o", "p", "d">>
cFlu == <<"F", "l", "u">>

ConditionPool == {cType2Diabetes, cCardiacArrhythmia, cBloodPressure,
                  cHeartHypertensionCopd, cFlu}

SeqsUpTo(S, n) == UNION {[1..k -> S] : k \in 0..n}

MS_PER_DAY == 1000 * 60 * 60 * 24

\* the wall clock read by new Date(), in milliseconds after a reference instant
NowValue == 12 * MS_PER_DAY + 1

AgeValues == Opt({0, 50, 51, 65, 66})
HospValues == Opt(0..MaxHosp)
MedValues == Opt({0} \cup 5..MaxMeds)
\* elapsed milliseconds between admission and now: negative when the admission
\* date lies in the future
ElapsedValues ==
    {-1} \cup {d * MS_PER_DAY + o : d \in 7..MaxStayDays, o \in {0, MS_PER_DAY - 1}}
AdmissionValues == Opt({NowValue - e : e \in ElapsedValues})
ConditionValues == Opt(SeqsUpTo(ConditionPool, MaxConds))
MedicalHistoryValues ==
    Opt([conditions : ConditionValues, medications : MedValues])
CurrentVisitValues == Opt([admissionDate : AdmissionValues])

\* previousHospitalizations and medications are arrays of which the code reads
\* only .length: they are modelled by their length
PatientAssessmentInput ==
    [age : AgeValues, previousHospitalizations : HospValues,
     medicalHistory : MedicalHistoryValues, currentVisit : CurrentVisitValues]

EmptyInput ==
    [age |-> Absent, previousHospitalizations |-> Absent,
     medicalHistory |-> Absent, currentVisit |-> Absent]

(***************************************************************************)
(* generateReadmissionPrediction: each rule yields its score delta and the *)
(* factor strings it pushes.                                               *)
(***************************************************************************)
NoRule == [delta |-> 0, factors |-> <<>>]
Fired(d, f) == [delta |-> d, factors |-> <<f>>]

\* JavaScript truthiness of an optional number
TruthyNum(v) == v # Absent /\ Val(v) # 0

Min(a, b) == IF a < b THEN a ELSE b

\* mutant of ageRule: the upper age boundary taken inclusively
ageRuleInclusive(age) ==
    IF TruthyNum(age)
    THEN IF Val(age) >= 65 THEN Fired(20, "Age over 65")
         ELSE IF Val(age) > 50 THEN Fired(10, "Age over 50")
         ELSE NoRule
    ELSE NoRule

ageRule(age) ==
    IF TruthyNum(age)
    THEN IF Val(age) > 65 THEN Fired(20, "Age over 65")
         ELSE IF Val(age) > 50 THEN Fired(10, "Age over 50")
         ELSE NoRule
    ELSE NoRule

hospitalizationRule(ph) ==
    IF ph # Absent /\ Val(ph) > 0
    THEN IF Val(ph) > 2 THEN Fired(25, "Multiple previous hospitalizations")
         ELSE IF Val(ph) > 0 THEN Fired(15, "Prior hospitalization")
         ELSE NoRule
    ELSE NoRule

HasConditions(mh) == mh # Absent /\ Val(mh).conditions # Absent
conditionsOf(mh) == Val(Val(mh).conditions)

IsDiabetes(c) == includes(toLowerCase(c), kwDiabet)
IsHeart(c) == includes(toLowerCase(c), kwHeart) \/ includes(toLowerCase(c), kwCardiac)
IsHypertension(c) ==
    includes(toLowerCase(c), kwHypertension) \/ includes(toLowerCase(c), kwBloodPressure)
IsRespiratory(c) ==
    \/ includes(toLowerCase(c), kwRespiratory)
    \/ includes(toLowerCase(c), kwCopd)
    \/ includes(toLowerCase(c), kwAsthma)

diabetesRule(mh) ==
    IF HasConditions(mh) /\ 
       (\E i \in 1..Len(conditionsOf(mh)) : IsDiabetes(conditionsOf(mh)[i]))
    THEN Fired(15, "Diabetes") ELSE NoRule

heartRule(mh) ==
    IF HasConditions(mh) /\ 
       (\E i \in 1..Len(conditionsOf(mh)) : IsHeart(conditionsOf(mh)[i]))
    THEN Fired(20, "Heart condition") ELSE NoRule

hypertensionRule(mh) ==
    IF HasConditions(mh) /\ 
       (\E i \in 1..Len(conditionsOf(mh)) : IsHypertension(conditionsOf(mh)[i]))
    THEN Fired(10, "Hypertension") ELSE NoRule

respiratoryRule(mh) ==
    IF HasConditions(mh) /\ 
       (\E i \in 1..Len(conditionsOf(mh)) : IsRespiratory(conditionsOf(mh)[i]))
    THEN Fired(15, "Respiratory condition") ELSE NoRule

medicationRule(mh) ==
    IF mh # Absent /\ Val(mh).medications # Absent
    THEN IF Val(Val(mh).medications) > 5 THEN Fired(15, "Multiple medications (>5)") ELSE NoRule
    ELSE NoRule

\* Math.floor((currentDate - admissionDate) / (1000 * 60 * 60 * 24)); \div floors
stayDuration(currentDate, admissionDate) == (currentDate - admissionDate) \div MS_PER_DAY

\* mutant of stayRule: the seven-day boundary taken inclusively
stayRuleInclusive(cv, currentDate) ==
    IF cv # Absent /\ Val(cv).admissionDate # Absent
    THEN IF stayDuration(currentDate, Val(Val(cv).admissionDate)) >= 7
         THEN Fired(10, "Extended hospital stay (>7 days)") ELSE NoRule
    ELSE NoRule

stayRule(cv, currentDate) ==
    IF cv # Absent /\ Val(cv).admissionDate # Absent
    THEN IF stayDuration(currentDate, Val(Val(cv).admissionDate)) > 7
         THEN Fired(10, "Extended hospital stay (>7 days)") ELSE NoRule
    ELSE NoRule

\* mutant of capScore: the cap left out
capScoreUncapped(riskScore) == riskScore

capScore(riskScore) == Min(riskScore, 100)

\* mutant of riskLevelOf: the tier boundaries taken inclusively
riskLevelOfInclusive(riskScore) ==
    IF riskScore <= 30 THEN "Low" ELSE IF riskScore <= 60 THEN "Moderate" ELSE "High"

riskLevelOf(riskScore) ==
    IF riskScore < 30 THEN "Low" ELSE IF riskScore < 60 THEN "Moderate" ELSE "High"

Notes == "This is a simplified prediction model for demonstration purposes only"

\* the rules in the order the function evaluates them
ruleResults(pd, currentDate) ==
    <<ageRule(pd.age),
      hospitalizationRule(pd.previousHospitalizations),
      diabetesRule(pd.medicalHistory),
      heartRule(pd.medicalHistory),
      hypertensionRule(pd.medicalHistory),
      respiratoryRule(pd.medicalHistory),
      medicationRule(pd.medicalHistory),
      stayRule(pd.currentVisit, currentDate)>>

RECURSIVE sumDeltas(_)
sumDeltas(rs) == IF rs = <<>> THEN 0 ELSE rs[1].delta + sumDeltas(Tail(rs))

\* mutant of pushedFactors: factors collected in reverse rule order
RECURSIVE pushedFactorsReversed(_)
pushedFactorsReversed(rs) ==
    IF rs = <<>> THEN <<>> ELSE pushedFactorsReversed(Tail(rs)) \o rs[1].factors

RECURSIVE pushedFactors(_)
pushedFactors(rs) == IF rs = <<>> THEN <<>> ELSE rs[1].factors \o pushedFactors(Tail(rs))

generateReadmissionPrediction(pd, currentDate) ==
    LET rs == ruleResults(pd, currentDate)
        riskScore == capScore(sumDeltas(rs))
    IN [readmissionRisk |-> riskScore,
        riskLevel |-> riskLevelOf(riskScore),
        factors |-> pushedFactors(rs),
        notes |-> Notes]

(***************************************************************************)
(* Patient store (models/Patient.js) and the patient routes                *)
(* (routes/patients.js)                                                    *)
(***************************************************************************)
MaxDocs == 2

Hospitals == {"hospitalA", "hospitalB"}
PatientIdValues == {"P1", "P2"}

\* a request parameter or body value offered as an ObjectId: oid identifies
\* the ObjectId when the value is well-formed
MalformedId == [valid |-> FALSE, oid |-> 0]
WellFormedIds == [valid : {TRUE}, oid : 1..MaxDocs]
IdValues == WellFormedIds \cup {MalformedId}

\* mutant of isValid: every identifier accepted
isValidAlways(id) == TRUE

\* mongoose.Types.ObjectId.isValid
isValid(id) == id.valid

\* the cast of the _id filter value that every query performs
castObjectId(id) == id.valid

GenderEnum == {"male", "female", "other"}
RiskEnum == {"Low", "Medium", "High", "Unknown"}

\* the plain object { score, factors, lastUpdated } handed to a String path
ObjectValue(score, factors) == [kind |-> "object", score |-> score, factors |-> factors]

\* the structured value as a stored record would hold it: its printed form, so
\* that the readmissionRisk of every record is a string
storedObject(v) == ToString(v)

\* mongoose's cast to String: a plain object has no string form and fails
castString(v) == v.kind = "string"

\* required and enum validators of the schema, in schema order
requiredMessages(path, message) == IF path = Absent THEN <<message>> ELSE <<>>

enumMessages(path, enum, message) ==
    IF path # Absent /\ Val(path) \notin enum THEN <<message>> ELSE <<>>

BadGenderMessage == "gender is not a valid enum value"
BadRiskMessage == "readmissionRisk is not a valid enum value"

\* document validation run by Patient.create
validateDocument(data) ==
    requiredMessages(data.patientId, "Please add a patient ID")
    \o requiredMessages(data.gender, "Please add gender")
    \o enumMessages(data.gender, GenderEnum, BadGenderMessage)
    \o enumMessages(data.readmissionRisk, RiskEnum, BadRiskMessage)

\* update validators (runValidators: true): only the paths the update sets
validateUpdate(updateData) ==
    enumMessages(updateData.gender, GenderEnum, BadGenderMessage)
    \o enumMessages(updateData.readmissionRisk, RiskEnum, BadRiskMessage)

\* messages.join(', ')
RECURSIVE join(_, _)
join(messages, sep) ==
    IF Len(messages) = 0 THEN <<>>
    ELSE IF Len(messages) = 1 THEN messages
    ELSE <<messages[1], sep>> \o join(Tail(messages), sep)

\* Patient.find({ hospitalId })
find(coll, hospitalId) == {d \in coll : d.hospitalId = hospitalId}

\* mutant of matchesFilter: the hospital left out of the filter
matchesFilterIdOnly(d, id, hospitalId) == d._id = id.oid

\* the filter { _id: id, hospitalId: req.hospital._id }
matchesFilter(d, id, hospitalId) == d._id = id.oid /\ d.hospitalId = hospitalId

\* Patient.findOne(filter): the matching documents (at most one)
findOne(coll, id, hospitalId) == {d \in coll : matchesFilter(d, id, hospitalId)}

\* $set of the fields the update holds
applyUpdate(d, updateData) ==
    [d EXCEPT !.gender = IF updateData.gender = Absent THEN @ ELSE Val(updateData.gender),
              !.readmissionRisk = IF updateData.readmissionRisk = Absent THEN @
                                  ELSE Val(updateData.readmissionRisk)]

NoBody == [patientId |-> Absent, gender |-> Absent, readmissionRisk |-> Absent]
\* request bodies: a missing patientId or gender and a gender or readmissionRisk
\* outside its enum fail validation
CreateBodies ==
    [patientId : Opt(PatientIdValues), gender : Opt({"male", "robot"}),
     readmissionRisk : Opt({"Critical"})]
UpdateBodies ==
    [patientId : {Absent}, gender : Opt({"female", "robot"}),
     readmissionRisk : Opt({"Critical"})]

\* payloads of POST /api/predictions used next to the patient routes
HighRiskInput ==
    [age |-> Some(66), previousHospitalizations |-> Some(MaxHosp),
     medicalHistory |-> Some([conditions |-> Absent, medications |-> Some(MaxMeds)]),
     currentVisit |-> Absent]
PredictionInputs == {EmptyInput, HighRiskInput}

(***************************************************************************)
(* POST /api/recommendations and its fallback (routes/recommendations.js)  *)
(***************************************************************************)
MaxRecs == 4

Rec(text, category) == [text |-> text, category |-> category]

\* mutant of getFallbackRecommendations: the tier ignored
getFallbackRecommendationsLow(riskCategory) ==
    <<Rec("Schedule your next regular check-up as recommended by your doctor.",
          "Follow-up Care"),
      Rec("Continue your normal healthy habits including regular exercise and a balanced diet.",
          "Lifestyle"),
      Rec("Take all medications as prescribed and report any concerns to your doctor.",
          "Medication")>>

\* riskCategory is the optional body field
getFallbackRecommendations(riskCategory) ==
    IF riskCategory = Some("high")
    THEN <<Rec("See your doctor within 2 weeks. Bring a list of any questions or concerns you have.",
               "Follow-up Care"),
           Rec("Work with a care coordinator to help manage your care after leaving the hospital.",
               "Support"),
           Rec("Review your medication schedule with your caregiver or family member.",
               "Medication"),
           Rec("Check your blood pressure, heart rate, and weight daily for the next week.",
               "Monitoring")>>
    ELSE IF riskCategory = Some("medium")
    THEN <<Rec("Schedule a follow-up appointment within the next month.", "Follow-up Care"),
           Rec("Take all medications as prescribed and keep track of any side effects.",
               "Medication"),
           Rec("Know the warning signs that require medical attention and when to call your doctor.",
               "Home Care"),
           Rec("Consider a video check-in with your healthcare provider in two weeks.",
               "Follow-up Care")>>
    ELSE <<Rec("Schedule your next regular check-up as recommended by your doctor.",
               "Follow-up Care"),
           Rec("Continue your normal healthy habits including regular exercise and a balanced diet.",
               "Lifestyle"),
           Rec("Take all medications as prescribed and report any concerns to your doctor.",
               "Medication")>>

\* JavaScript truthiness of an optional string
TruthyStr(v) == v # Absent /\ Val(v) # ""

\* the recommendations an AI response holds: n generated entries
AiRecommendations(n) == [i \in 1..n |-> Rec("generated recommendation", "Generated")]

\* What the text of an AI response holds once the surrounding prose and code
\* fences are stripped:
\*   "prose"       no JSON at all
\*   "null"        the JSON literal null
\*   "list"        a JSON array of strings at top level
\*   "object"      a JSON object; recs says what its recommendations member is:
\*                 "array" (of n entries), "missing", "null" or "string"
Payloads ==
    {[kind |-> k, recs |-> "missing", n |-> 0] : k \in {"prose", "null", "list"}}
    \cup {[kind |-> "object", recs |-> r, n |-> 0] : r \in {"missing", "null", "string"}}
    \cup {[kind |-> "object", recs |-> "array", n |-> n] : n \in 0..MaxRecs}

\* how the payload is wrapped in the response text
Wraps == {"json fence", "fence", "prose around", "bare"}

\* outcome of model.generateContent and result.response.text()
AiOutcomes ==
    {[call |-> c, wrap |-> "bare", payload |-> [kind |-> "prose", recs |-> "missing", n |-> 0]] :
        c \in {"generateContent throws", "text throws"}}
    \cup [call : {"text"}, wrap : Wraps, payload : Payloads]

\* the three regular expressions and jsonMatch[1] || jsonMatch[0]: the fenced
\* content, else the span from the first { to the last }, else the whole text
extractJson(wrap, payload) ==
    IF wrap \in {"json fence", "fence"} THEN payload
    ELSE IF payload.kind = "object" THEN payload
    ELSE IF wrap = "prose around"
    THEN [kind |-> "prose", recs |-> "missing", n |-> 0]
    ELSE payload

\* JSON.parse throws on text that is not JSON
parseThrows(jsonStr) == jsonStr.kind = "prose"

\* aiResponse.recommendations throws a TypeError when aiResponse is null
memberThrows(aiResponse) == aiResponse.kind = "null"

\* aiResponse.recommendations || []
recommendationsOf(aiResponse) ==
    IF aiResponse.kind = "object" /\ aiResponse.recs = "array"
    THEN [isArray |-> TRUE, value |-> AiRecommendations(aiResponse.n)]
    ELSE IF aiResponse.kind = "object" /\ aiResponse.recs = "string"
    THEN [isArray |-> FALSE, value |-> <<>>]
    ELSE [isArray |-> TRUE, value |-> <<>>]

\* the inner try/catch: parse the response text, fall back when that throws
parseRecommendations(outcome, riskCategory) ==
    LET jsonStr == extractJson(outcome.wrap, outcome.payload)
    IN IF parseThrows(jsonStr) \/ memberThrows(jsonStr)
          \/ ~recommendationsOf(jsonStr).isArray
       THEN getFallbackRecommendations(riskCategory)
       ELSE recommendationsOf(jsonStr).value

\* res.json(...) sends status 200
RecResponse(status, recommendations, source, message, aiCalls) ==
    [status |-> status, recommendations |-> recommendations, source |-> source,
     message |-> message, aiCalls |-> aiCalls]

\* mutant of catchResponse: the failure passed on as a server error
catchResponseError(riskCategory, aiCalls) ==
    RecResponse(500, <<>>, "none", "Server error", aiCalls)

\* the outer catch block
catchResponse(riskCategory, aiCalls) ==
    RecResponse(200, getFallbackRecommendations(riskCategory), "fallback", "", aiCalls)

RecBodies ==
    [riskCategory : Opt({"", "high", "medium", "low", "HIGH"}),
     riskValue : Opt({85}),
     patientData : {"missing", "well-formed", "comorbidities not an array"}]

NoRecReq ==
    [body |-> [riskCategory |-> Absent, riskValue |-> Absent, patientData |-> "missing"],
     outcome |-> [call |-> "none", wrap |-> "bare",
                  payload |-> [kind |-> "prose", recs |-> "missing", n |-> 0]]]
NoRecRes == RecResponse(0, <<>>, "none", "", 0)

(***************************************************************************)
(* State                                                                   *)
(***************************************************************************)
VARIABLES
    patientData,   \* body of the last POST /api/predictions
    now,           \* the wall clock
    prediction,    \* the prediction the scorer returned
    patients,      \* the Patient collection
    nextId,        \* the next ObjectId the store assigns
    req,           \* the last request: route, caller's hospital, :id, body, store fault
    res,           \* the last response
    recReq,        \* the last POST /api/recommendations: body and what the AI call did
    recRes         \* its response

vars == <<patientData, now, prediction, patients, nextId, req, res, recReq, recRes>>

NoPrediction == [readmissionRisk |-> -1, riskLevel |-> "none", factors |-> <<>>, notes |-> "none"]

NoReq == [op |-> "none", hospital |-> "none", id |-> MalformedId, body |-> NoBody,
          fault |-> FALSE]
NoRes == [status |-> 0, body |-> {}, data |-> 0, message |-> <<>>, storeOps |-> 0]

Request(op, hospital, id, body, fault) ==
    [op |-> op, hospital |-> hospital, id |-> id, body |-> body, fault |-> fault]

\* res.status(status).json({ success: false, message })
ErrorResponse(status, message, storeOps) ==
    [status |-> status, body |-> {}, data |-> 0, message |-> message, storeOps |-> storeOps]

\* res.status(status).json(docs)
DocsResponse(status, docs) ==
    [status |-> status, body |-> docs, data |-> 0, message |-> <<>>, storeOps |-> 1]

\* a request to a patient route carries no prediction payload and returns none
NoScoring ==
    /\ patientData' = EmptyInput /\ prediction' = NoPrediction /\ now' = now
    /\ UNCHANGED <<recReq, recRes>>
storeVars == <<patients, nextId>>

(***************************************************************************)
(* SpecScore: the scorer applied to every payload of PatientAssessmentInput *)
(***************************************************************************)
InitScore ==
    /\ patientData \in PatientAssessmentInput
    /\ now = NowValue
    /\ prediction = NoPrediction
    /\ patients = {} /\ nextId = 1 /\ req = NoReq /\ res = NoRes
    /\ recReq = NoRecReq /\ recRes = NoRecRes

Score ==
    /\ prediction = NoPrediction
    /\ prediction' = generateReadmissionPrediction(patientData, now)
    /\ UNCHANGED <<patientData, now, patients, nextId, req, res, recReq, recRes>>

NextScore == Score

SpecScore == InitScore /\ [][NextScore]_vars

Scored == prediction # NoPrediction

(***************************************************************************)
(* SpecPatients: the patient routes and the prediction write-back          *)
(***************************************************************************)
InitPatients ==
    /\ patientData = EmptyInput
    /\ now = NowValue
    /\ prediction = NoPrediction
    /\ patients = {} /\ nextId = 1 /\ req = NoReq /\ res = NoRes
    /\ recReq = NoRecReq /\ recRes = NoRecRes

\* GET /api/patients
GetPatients(h, fault) ==
    /\ req' = Request("GET /patients", h, MalformedId, NoBody, fault)
    /\ res' = IF fault
              THEN ErrorResponse(500, <<"Server error while fetching patients">>, 1)
              ELSE DocsResponse(200, find(patients, h))
    /\ UNCHANGED <<patients, nextId>>
    /\ NoScoring

\* POST /api/patients
CreatePatient(h, body, fault) ==
    LET data == [patientId |-> body.patientId,
                 gender |-> body.gender,
                 readmissionRisk |-> IF body.readmissionRisk = Absent
                                     THEN Some("Unknown") ELSE body.readmissionRisk,
                 hospitalId |-> h]
        messages == validateDocument(data)
        duplicate == \E d \in patients : d.patientId = Val(data.patientId)
        doc == [_id |-> nextId, hospitalId |-> data.hospitalId,
                patientId |-> Val(data.patientId), gender |-> Val(data.gender),
                readmissionRisk |-> Val(data.readmissionRisk)]
    IN /\ req' = Request("POST /patients", h, MalformedId, body, fault)
       /\ IF messages # <<>>
          THEN \* ValidationError: raised before the insert is sent
               /\ res' = ErrorResponse(400, join(messages, ", "), 0)
               /\ UNCHANGED <<patients, nextId>>
          ELSE IF fault \/ duplicate
          THEN \* the store rejects: a fault, or the unique index on patientId
               /\ res' = ErrorResponse(500, <<"Server error while creating patient">>, 1)
               /\ UNCHANGED <<patients, nextId>>
          ELSE /\ nextId <= MaxDocs
               /\ patients' = patients \cup {doc}
               /\ nextId' = nextId + 1
               /\ res' = DocsResponse(201, {doc})
       /\ NoScoring

\* GET /api/patients/:id
GetPatient(h, id, fault) ==
    /\ req' = Request("GET /patients/:id", h, id, NoBody, fault)
    /\ res' = IF ~isValid(id)
              THEN ErrorResponse(400, <<"Invalid patient ID">>, 0)
              ELSE IF fault \/ ~castObjectId(id)
              THEN ErrorResponse(500, <<"Server error while fetching patient">>, 1)
              ELSE IF findOne(patients, id, h) = {}
              THEN ErrorResponse(404, <<"Patient not found">>, 1)
              ELSE DocsResponse(200, findOne(patients, id, h))
    /\ UNCHANGED <<patients, nextId>>
    /\ NoScoring

\* PUT /api/patients/:id
UpdatePatient(h, id, body, fault) ==
    LET updateData == [gender |-> body.gender, readmissionRisk |-> body.readmissionRisk]
        messages == validateUpdate(updateData)
        found == findOne(patients, id, h)
        updated == {applyUpdate(d, updateData) : d \in found}
    IN /\ req' = Request("PUT /patients/:id", h, id, body, fault)
       /\ IF ~isValid(id)
          THEN /\ res' = ErrorResponse(400, <<"Invalid patient ID">>, 0)
               /\ UNCHANGED patients
          ELSE IF messages # <<>>
          THEN \* update validators run on the update before the query is sent
               /\ res' = ErrorResponse(400, join(messages, ", "), 0)
               /\ UNCHANGED patients
          ELSE IF fault \/ ~castObjectId(id)
          THEN /\ res' = ErrorResponse(500, <<"Server error while updating patient">>, 1)
               /\ UNCHANGED patients
          ELSE IF found = {}
          THEN /\ res' = ErrorResponse(404, <<"Patient not found">>, 1)
               /\ UNCHANGED patients
          ELSE /\ patients' = (patients \ found) \cup updated
               /\ res' = DocsResponse(200, updated)
       /\ UNCHANGED nextId
       /\ NoScoring

\* DELETE /api/patients/:id
DeletePatient(h, id, fault) ==
    LET found == findOne(patients, id, h)
    IN /\ req' = Request("DELETE /patients/:id", h, id, NoBody, fault)
       /\ IF ~isValid(id)
          THEN /\ res' = ErrorResponse(400, <<"Invalid patient ID">>, 0)
               /\ UNCHANGED patients
          ELSE IF fault \/ ~castObjectId(id)
          THEN /\ res' = ErrorResponse(500, <<"Server error while deleting patient">>, 1)
               /\ UNCHANGED patients
          ELSE IF found = {}
          THEN /\ res' = ErrorResponse(404, <<"Patient not found">>, 1)
               /\ UNCHANGED patients
          ELSE /\ patients' = patients \ found
               /\ res' = [status |-> 200, body |-> {}, data |-> (CHOOSE d \in found : TRUE)._id,
                          message |-> <<>>, storeOps |-> 1]
       /\ UNCHANGED nextId
       /\ NoScoring

\* POST /api/predictions; pid is the optional patientId of the body
PostPrediction(h, pd, pid, fault) ==
    LET result == generateReadmissionPrediction(pd, now)
        value == ObjectValue(result.readmissionRisk, result.factors)
        found == findOne(patients, Val(pid), h)
    IN /\ req' = Request("POST /predictions", h, IF pid = Absent THEN MalformedId ELSE Val(pid),
                         [NoBody EXCEPT !.patientId = IF pid = Absent THEN Absent
                                                      ELSE Some("ObjectId")],
                         fault)
       /\ patientData' = pd
       /\ UNCHANGED <<now, nextId, recReq, recRes>>
       /\ IF pid = Absent
          THEN /\ prediction' = result
               /\ res' = [NoRes EXCEPT !.status = 200]
               /\ UNCHANGED patients
          ELSE IF ~castString(value) \/ ~castObjectId(Val(pid)) \/ fault
          THEN \* the update is cast against the schema before the query is sent:
               \* readmissionRisk is a String path and the value a plain object
               /\ prediction' = NoPrediction
               /\ res' = ErrorResponse(500, <<"Server error while generating prediction">>,
                                       IF fault THEN 1 ELSE 0)
               /\ UNCHANGED patients
          ELSE /\ prediction' = result
               /\ res' = [NoRes EXCEPT !.status = 200, !.storeOps = 1]
               \* the matching record of the caller's hospital receives the value
               /\ patients' = (patients \ found)
                                \cup {[d EXCEPT !.readmissionRisk = storedObject(value)] : d \in found}

NextPatients ==
    \/ \E h \in Hospitals, fault \in BOOLEAN : GetPatients(h, fault)
    \/ \E h \in Hospitals, body \in CreateBodies, fault \in BOOLEAN : CreatePatient(h, body, fault)
    \/ \E h \in Hospitals, id \in IdValues, fault \in BOOLEAN : GetPatient(h, id, fault)
    \/ \E h \in Hospitals, id \in IdValues, body \in UpdateBodies, fault \in BOOLEAN :
          UpdatePatient(h, id, body, fault)
    \/ \E h \in Hospitals, id \in IdValues, fault \in BOOLEAN : DeletePatient(h, id, fault)
    \/ \E h \in Hospitals, pd \in PredictionInputs, pid \in Opt(IdValues), fault \in BOOLEAN :
          PostPrediction(h, pd, pid, fault)

SpecPatients == InitPatients /\ [][NextPatients]_vars

(***************************************************************************)
(* SpecRecommendations: POST /api/recommendations                          *)
(***************************************************************************)
InitRecommendations == InitPatients

\* outcome is what the AI call does if the handler gets to make it
PostRecommendations(body, outcome) ==
    /\ recReq' = [body |-> body, outcome |-> outcome]
    /\ recRes' =
          IF ~TruthyStr(body.riskCategory)
          THEN RecResponse(400, <<>>, "none", "Risk category is required", 0)
          ELSE IF body.patientData = "comorbidities not an array"
          THEN \* patientData.comorbidities.join throws while the prompt is built
               catchResponse(body.riskCategory, 0)
          ELSE IF outcome.call \in {"generateContent throws", "text throws"}
          THEN catchResponse(body.riskCategory, 1)
          ELSE RecResponse(200, parseRecommendations(outcome, body.riskCategory),
                           "ai-generated", "", 1)
    /\ UNCHANGED <<patientData, now, prediction, patients, nextId, req, res>>

NextRecommendations ==
    \E body \in RecBodies, outcome \in AiOutcomes : PostRecommendations(body, outcome)

SpecRecommendations == InitRecommendations /\ [][NextRecommendations]_vars

(***************************************************************************)
(* The rule table of the specification, stated independently of the code:  *)
(* which groups each payload condition belongs to, and what each rule adds *)
(***************************************************************************)
TableGroups(c) ==
    CASE c = cType2Diabetes -> {"Diabetes"}
      [] c = cCardiacArrhythmia -> {"Heart condition"}
      [] c = cBloodPressure -> {"Hypertension"}
      [] c = cHeartHypertensionCopd -> {"Heart condition", "Hypertension", "Respiratory condition"}
      [] OTHER -> {}

TableHasGroup(pd, g) ==
    /\ pd.medicalHistory # Absent
    /\ Val(pd.medicalHistory).conditions # Absent
    /\ \E i \in DOMAIN Val(Val(pd.medicalHistory).conditions) :
          g \in TableGroups(Val(Val(pd.medicalHistory).conditions)[i])

TableAge(pd) == IF pd.age = Absent THEN 0 ELSE Val(pd.age)
TableHosp(pd) ==
    IF pd.previousHospitalizations = Absent THEN 0 ELSE Val(pd.previousHospitalizations)
TableMeds(pd) ==
    IF pd.medicalHistory = Absent \/ Val(pd.medicalHistory).medications = Absent
    THEN 0 ELSE Val(Val(pd.medicalHistory).medications)
TableHasAdmission(pd) ==
    pd.currentVisit # Absent /\ Val(pd.currentVisit).admissionDate # Absent
\* milliseconds elapsed since the admission
TableElapsed(pd, t) == t - Val(Val(pd.currentVisit).admissionDate)
\* more than seven whole days elapsed: at least eight full days
TableLongStay(pd, t) == TableHasAdmission(pd) /\ TableElapsed(pd, t) >= 8 * MS_PER_DAY

\* the rows of the table, in evaluation order: <<fires, delta, factor text>>
TableRows(pd, t) ==
    <<<<TableAge(pd) > 65, 20, "Age over 65">>,
      <<TableAge(pd) <= 65 /\ TableAge(pd) > 50, 10, "Age over 50">>,
      <<TableHosp(pd) > 2, 25, "Multiple previous hospitalizations">>,
      <<TableHosp(pd) <= 2 /\ TableHosp(pd) > 0, 15, "Prior hospitalization">>,
      <<TableHasGroup(pd, "Diabetes"), 15, "Diabetes">>,
      <<TableHasGroup(pd, "Heart condition"), 20, "Heart condition">>,
      <<TableHasGroup(pd, "Hypertension"), 10, "Hypertension">>,
      <<TableHasGroup(pd, "Respiratory condition"), 15, "Respiratory condition">>,
      <<TableMeds(pd) > 5, 15, "Multiple medications (>5)">>,
      <<TableLongStay(pd, t), 10, "Extended hospital stay (>7 days)">>>>

RECURSIVE TableSum(_)
TableSum(rows) ==
    IF rows = <<>> THEN 0
    ELSE (IF rows[1][1] THEN rows[1][2] ELSE 0) + TableSum(Tail(rows))

RECURSIVE TableFactors(_)
TableFactors(rows) ==
    IF rows = <<>> THEN <<>>
    ELSE (IF rows[1][1] THEN <<rows[1][3]>> ELSE <<>>) \o TableFactors(Tail(rows))

AllRulesFire(pd, t) ==
    /\ TableAge(pd) > 65
    /\ TableHosp(pd) > 2
    /\ \A g \in {"Diabetes", "Heart condition", "Hypertension", "Respiratory condition"} :
          TableHasGroup(pd, g)
    /\ TableMeds(pd) > 5
    /\ TableLongStay(pd, t)

InSeq(x, sq) == \E i \in DOMAIN sq : sq[i] = x
NoDuplicates(sq) == \A i, j \in DOMAIN sq : sq[i] = sq[j] => i = j

\* C1: for every payload the returned readmissionRisk is an integer between 0
\* and 100; when every rule fires the raw sum is 130 and the result is 100
\* with riskLevel High.
C1_RiskWithinBounds ==
    Scored =>
        /\ prediction.readmissionRisk \in 0..100
        /\ AllRulesFire(patientData, now) =>
              /\ TableSum(TableRows(patientData, now)) = 130
              /\ prediction.readmissionRisk = 100
              /\ prediction.riskLevel = "High"

C1_Witness ==
    Scored /\ AllRulesFire(patientData, now) /\ prediction.readmissionRisk = 100

\* C2: riskLevel is Low iff readmissionRisk < 30, Moderate iff
\* 30 <= readmissionRisk < 60, High iff readmissionRisk >= 60.
C2_RiskLevelTiers ==
    Scored =>
        /\ prediction.riskLevel \in {"Low", "Moderate", "High"}
        /\ prediction.riskLevel = "Low" <=> prediction.readmissionRisk < 30
        /\ prediction.riskLevel = "Moderate" <=>
              (30 <= prediction.readmissionRisk /\ prediction.readmissionRisk < 60)
        /\ prediction.riskLevel = "High" <=> prediction.readmissionRisk >= 60

C2_Witness ==
    Scored /\ prediction.readmissionRisk = 30 /\ prediction.riskLevel = "Moderate"

\* C3: readmissionRisk equals min(100, sum of the deltas of the table rules
\* that fire), each rule firing on its own condition only.
C3_ScoreIsCappedRuleSum ==
    Scored =>
        prediction.readmissionRisk =
            (IF TableSum(TableRows(patientData, now)) > 100 THEN 100
             ELSE TableSum(TableRows(patientData, now)))

C3_Witness ==
    /\ Scored
    /\ patientData.age = Some(65)
    /\ TableHasGroup(patientData, "Diabetes")
    /\ TableHasGroup(patientData, "Heart condition")
    /\ ~TableHasGroup(patientData, "Hypertension")
    /\ TableHosp(patientData) = 0 /\ TableMeds(patientData) = 0
    /\ ~TableLongStay(patientData, now)
    /\ prediction.readmissionRisk = 45

\* C4: the extended-stay factor is present, and +10 added, exactly when at
\* least eight full days have elapsed since the admission date: present at
\* exactly 8 days, absent at exactly 7 days, at any elapsed time below 8 days
\* and for an admission date in the future.
C4_ExtendedStayBoundary ==
    (Scored /\ TableHasAdmission(patientData)) =>
        LET elapsed == TableElapsed(patientData, now)
            present == InSeq("Extended hospital stay (>7 days)", prediction.factors)
            others == TableSum(SubSeq(TableRows(patientData, now), 1, 9))
        IN /\ elapsed = 8 * MS_PER_DAY => present
           /\ elapsed = 7 * MS_PER_DAY => ~present
           /\ elapsed < 8 * MS_PER_DAY => ~present
           /\ elapsed < 0 => ~present
           /\ present => prediction.readmissionRisk = Min(100, others + 10)
           /\ ~present => prediction.readmissionRisk = Min(100, others)

C4_Witness ==
    /\ Scored /\ TableHasAdmission(patientData)
    /\ TableElapsed(patientData, now) = 8 * MS_PER_DAY
    /\ InSeq("Extended hospital stay (>7 days)", prediction.factors)

\* C5: factors holds exactly one string per fired rule, none for a rule that
\* did not fire, without duplicates and in rule-evaluation order; the empty
\* payload gives readmissionRisk 0, factors <<>> and riskLevel Low; notes is
\* the same fixed disclaimer for every payload.
C5_FactorsAndNotes ==
    Scored =>
        /\ prediction.factors = TableFactors(TableRows(patientData, now))
        /\ NoDuplicates(prediction.factors)
        /\ prediction.notes =
              "This is a simplified prediction model for demonstration purposes only"
        /\ patientData = EmptyInput =>
              /\ prediction.readmissionRisk = 0
              /\ prediction.factors = <<>>
              /\ prediction.riskLevel = "Low"

C5_Witness ==
    /\ Scored
    /\ Len(prediction.factors) = 8
    /\ prediction.factors[1] = "Age over 65"
    /\ prediction.factors[8] = "Extended hospital stay (>7 days)"

(***************************************************************************)
(* Properties of the patient routes                                        *)
(***************************************************************************)
IdRoutes == {"GET /patients/:id", "PUT /patients/:id", "DELETE /patients/:id"}
BodyRoutes == {"POST /patients", "PUT /patients/:id"}

\* C6: a request made by one hospital never returns, modifies, deletes or
\* creates a patient record whose hospitalId is another hospital: the records
\* of every other hospital are the same before and after the request, every
\* returned record and every deleted record belongs to the caller, and a
\* created record is owned by the caller.
C6_IsolationStep ==
    LET caller == req'.hospital
    IN /\ \A d \in patients : d.hospitalId # caller => d \in patients'
       /\ \A d \in patients' : d.hospitalId # caller => d \in patients
       /\ \A d \in res'.body : d.hospitalId = caller
       /\ res'.data # 0 =>
             \E d \in patients : d._id = res'.data /\ d.hospitalId = caller
       /\ \A d \in patients' : \A e \in patients : d._id = e._id => d.hospitalId = e.hospitalId

C6_TenantIsolation == [][C6_IsolationStep]_vars

\* another hospital's record was asked for by its ID and was neither returned
\* nor deleted
C6_Witness ==
    /\ req.op = "DELETE /patients/:id" /\ req.id.valid /\ ~req.fault
    /\ \E d \in patients : d._id = req.id.oid /\ d.hospitalId # req.hospital
    /\ res.status = 404

\* the fields of a request body that fail validation on its route
FailingFields(r) ==
    (IF r.op = "POST /patients" /\ r.body.patientId = Absent THEN {"patientId"} ELSE {})
    \cup (IF r.op = "POST /patients" /\ r.body.gender = Absent THEN {"gender"} ELSE {})
    \cup (IF r.body.gender # Absent /\ Val(r.body.gender) \notin {"male", "female", "other"}
          THEN {"gender"} ELSE {})
    \cup (IF r.body.readmissionRisk # Absent
             /\ Val(r.body.readmissionRisk) \notin {"Low", "Medium", "High", "Unknown"}
          THEN {"readmissionRisk"} ELSE {})

\* message is n validation messages joined by ", "
JoinedMessages(message, n) ==
    /\ Len(message) = 2 * n - 1
    /\ \A i \in 1..Len(message) : (i % 2 = 0) <=> (message[i] = ", ")
    /\ \A i, j \in 1..Len(message) : (message[i] = message[j] /\ i % 2 = 1) => i = j

HasRecordFor(coll, r) ==
    \E d \in coll : d._id = r.id.oid /\ d.hospitalId = r.hospital

\* 400 for a malformed identifier, the store neither read nor changed
C7_Malformed ==
    (req'.op \in IdRoutes /\ ~req'.id.valid) =>
        res'.status = 400 /\ res'.storeOps = 0 /\ patients' = patients

\* 400 with the joined messages for a field-validation failure, store unchanged
C7_Validation ==
    (/\ req'.op \in BodyRoutes
     /\ req'.op = "PUT /patients/:id" => req'.id.valid
     /\ FailingFields(req') # {}) =>
        /\ res'.status = 400
        /\ JoinedMessages(res'.message, Cardinality(FailingFields(req')))
        /\ patients' = patients

\* 500 for any other failure: the store operation itself is rejected
C7_OtherFailure ==
    (/\ req'.op \in IdRoutes \cup {"POST /patients"}
     /\ req'.op \in IdRoutes => req'.id.valid
     /\ FailingFields(req') = {}
     /\ \/ req'.fault
        \/ /\ req'.op = "POST /patients"
           /\ \E d \in patients : d.patientId = Val(req'.body.patientId)) =>
        res'.status = 500 /\ patients' = patients

\* 404 for a well-formed identifier without a record of the caller's hospital
C7_NotFound ==
    (/\ req'.op \in IdRoutes /\ req'.id.valid /\ ~req'.fault
     /\ ~HasRecordFor(patients, req')) =>
        res'.status = 404 /\ patients' = patients

\* C7, as stated: 400 for a malformed identifier (store not read or changed),
\* 404 for a well-formed identifier with no record of the caller's hospital
\* (store unchanged), 400 with the joined validation messages for a
\* field-validation failure on create or update (store unchanged), 500 for
\* any other failure.
C7_StatusCodesAsStated ==
    [][C7_Malformed /\ C7_NotFound /\ C7_Validation /\ C7_OtherFailure]_vars

\* 404 for a well-formed identifier without a record of the caller's hospital,
\* unless the update of a PUT fails field validation
C7_NotFoundValidUpdate ==
    (/\ req'.op \in IdRoutes /\ req'.id.valid /\ ~req'.fault
     /\ ~HasRecordFor(patients, req')
     /\ ~(req'.op = "PUT /patients/:id" /\ FailingFields(req') # {})) =>
        res'.status = 404 /\ patients' = patients

\* C7, amended: as stated, except that a PUT whose update fails field
\* validation answers 400 with the joined messages whether or not a record
\* with that ID exists for the caller's hospital; 404 is the answer only when
\* the update passes validation.
C7_StatusCodes ==
    [][C7_Malformed /\ C7_NotFoundValidUpdate /\ C7_Validation /\ C7_OtherFailure]_vars

\* a PUT with two failing fields for an ID without a record was answered 400
\* with both messages joined
C7_Witness ==
    /\ req.op = "PUT /patients/:id" /\ req.id.valid
    /\ ~HasRecordFor(patients, req)
    /\ Cardinality(FailingFields(req)) = 2
    /\ res.status = 400 /\ Len(res.message) = 3

(***************************************************************************)
(* Properties of POST /api/recommendations                                 *)
(***************************************************************************)
RecResponded == recRes.status # 0

\* the body carries a risk tier
HasTier(r) == r.body.riskCategory # Absent /\ r.body.riskCategory # Some("")

\* C8, as stated: POST /recommendations always responds with status 200, for
\* every request body (a body with no risk tier included) and every outcome
\* of the AI call.
C8_AlwaysOk == RecResponded => recRes.status = 200

\* C8, amended: POST /recommendations responds with status 200 for every body
\* that carries a risk tier, whatever the AI call does; a body with no risk
\* tier is answered 400 "Risk category is required" and the AI is not called.
C8_OkWhenTierGiven ==
    RecResponded =>
        IF HasTier(recReq) THEN recRes.status = 200
        ELSE /\ recRes.status = 400
             /\ recRes.message = "Risk category is required"
             /\ recRes.aiCalls = 0

C8_Witness ==
    /\ RecResponded /\ HasTier(recReq)
    /\ recReq.body.patientData # "comorbidities not an array"
    /\ recReq.outcome.call = "generateContent throws"
    /\ recRes.status = 200

\* C9: the source field tells which path produced the recommendations: it is
\* "fallback" whenever the returned recommendations are the hardcoded fallback
\* set, and "ai-generated" only when they were parsed from the AI response.
C9_SourceNamesPath ==
    (RecResponded /\ recRes.status = 200) =>
        /\ recRes.source \in {"ai-generated", "fallback"}
        /\ recRes.recommendations = getFallbackRecommendations(recReq.body.riskCategory)
              => recRes.source = "fallback"
        /\ recRes.source = "ai-generated" =>
              /\ recReq.outcome.call = "text"
              /\ recRes.recommendations # getFallbackRecommendations(recReq.body.riskCategory)

\* the AI call was made and failed: it threw, or its response is not JSON or
\* holds no recommendations array
GeneratorFailed(r) ==
    /\ HasTier(r)
    /\ r.body.patientData # "comorbidities not an array"
    /\ \/ r.outcome.call \in {"generateContent throws", "text throws"}
       \/ r.outcome.payload.kind # "object"
       \/ r.outcome.payload.recs # "array"

\* C10: on any failure of the recommendation generator the response carries
\* the hardcoded set chosen by the tier alone ("high", "medium", anything
\* else), of 3 or 4 recommendations, with status 200 and after a single call.
C10_FallbackOnAnyFailure ==
    (RecResponded /\ GeneratorFailed(recReq)) =>
        /\ recRes.status = 200
        /\ recRes.aiCalls = 1
        /\ Len(recRes.recommendations) \in {3, 4}
        /\ recRes.recommendations =
              (IF recReq.body.riskCategory = Some("high")
               THEN getFallbackRecommendations(Some("high"))
               ELSE IF recReq.body.riskCategory = Some("medium")
               THEN getFallbackRecommendations(Some("medium"))
               ELSE getFallbackRecommendations(Some("low")))

(***************************************************************************)
(* Properties of the prediction write-back                                 *)
(***************************************************************************)
\* what a record that received the produced score and factor list holds
ReceivedPrediction(d, result) ==
    d.readmissionRisk =
        ToString([kind |-> "object", score |-> result.readmissionRisk,
                  factors |-> result.factors])

C11_Answered(result) == res'.status = 200 /\ prediction' = result

\* C11: POST /predictions with a patientId that has no record for the caller's
\* hospital changes no record and still answers 200 with the result the scorer
\* produced; with a matching record, only that record is changed and it
\* receives the produced score and factor list; without a patientId the store
\* is not touched; 500 is answered only when the persistence layer fails (the
\* store rejects the operation or cannot read the identifier).
C11_WriteBackStep ==
    req'.op = "POST /predictions" =>
        LET result == generateReadmissionPrediction(patientData', now)
            given == req'.body.patientId # Absent
        IN /\ ~given => patients' = patients /\ C11_Answered(result)
           /\ (given /\ req'.id.valid /\ ~req'.fault /\ ~HasRecordFor(patients, req')) =>
                 patients' = patients /\ C11_Answered(result)
           /\ (given /\ req'.id.valid /\ ~req'.fault /\ HasRecordFor(patients, req')) =>
                 /\ C11_Answered(result)
                 /\ \A d \in patients :
                       (d._id # req'.id.oid \/ d.hospitalId # req'.hospital) => d \in patients'
                 /\ \E d \in patients' :
                       /\ d._id = req'.id.oid /\ d.hospitalId = req'.hospital
                       /\ ReceivedPrediction(d, result)
                 /\ Cardinality(patients') = Cardinality(patients)
           /\ res'.status = 500 => (given /\ (req'.fault \/ ~req'.id.valid))

C11_WriteBack == [][C11_WriteBackStep]_vars

====
